---- MODULE Spec2Model ----
\* Verification model of the two DynamicSystemPlot components:
\*   src/dynamic-system-plot.tsx  (fixed transition matrix W)
\*   src/unnamed/part_000         (transition matrix evolving under W_evolve)
\* JavaScript arrays are modelled as functions on 0..len-1, so that indices
\* read as in the source.
EXTENDS Integers, Sequences, FiniteSets, TLC

\* ---------------------------------------------------------------------------
\* Bounds of the model
\* ---------------------------------------------------------------------------

\* Significant decimal digits kept by the model's floating-point numbers
\* (an IEEE double keeps about 16; the exponent range is kept as it is).
Prec == 3

\* Largest decimal exponent of a finite double (1.797e308).
MaxExp10 == 308

\* Smallest decimal exponent of a non-zero double (4.9e-324).
MinExp10 == 324

\* Largest step count the engine runs are started with.
MaxSteps == 3

\* Number of input edits explored in one session of the component.
MaxEdits == 1

\* Number of display toggles explored in one session of the component.
MaxToggles == 1

\* Longest generated text handed to the coercion functions.
MaxLen == 2

\* ---------------------------------------------------------------------------
\* JavaScript numbers: a decimal floating-point value m * 10^e with at most
\* Prec significant digits, or NaN, or +/-Infinity.  Negative zero is not
\* distinguished from zero (nothing in the program divides or inspects signs).
\* ---------------------------------------------------------------------------

NaN == [k |-> "nan", m |-> 0, e |-> 0]

Inf(s) == [k |-> "inf", m |-> s, e |-> 0]

Fin(m, e) == [k |-> "fin", m |-> m, e |-> e]

Zero == Fin(0, 0)

IsNaN(n) == n.k = "nan"

IsFinite(n) == n.k = "fin"

Abs(i) == IF i < 0 THEN -i ELSE i

Sign(i) == IF i < 0 THEN -1 ELSE 1

Min(i, j) == IF i < j THEN i ELSE j

RECURSIVE Pow10(_)
Pow10(k) == IF k <= 0 THEN 1 ELSE 10 * Pow10(k - 1)

RECURSIVE NumDigits(_)
NumDigits(n) == IF n < 10 THEN 1 ELSE 1 + NumDigits(n \div 10)

RECURSIVE StripZeros(_, _)
StripZeros(n, e) ==
    IF n # 0 /\ n % 10 = 0 THEN StripZeros(n \div 10, e + 1) ELSE <<n, e>>

\* n > 0 rounded to at most Prec significant digits (round half up), as <<n', e'>>.
RoundBy(n, e, p) == <<(n \div p) + (IF 2 * (n % p) >= p THEN 1 ELSE 0), e>>

RoundAt(n, e, d) ==
    IF d <= Prec THEN <<n, e>> ELSE RoundBy(n, e + (d - Prec), Pow10(d - Prec))

RoundDigits(n, e) == RoundAt(n, e, NumDigits(n))

\* sg * n * 10^e with n of d digits: overflow to Infinity above 1.797e308,
\* underflow to 0 below 1e-324.
RangedAt(sg, n, e, d) ==
    IF \/ e + d - 1 > MaxExp10
       \/ e + d - 1 = MaxExp10 /\ (n * Pow10(3 - d)) \div Pow10(d - 3) >= 180
    THEN Inf(sg)
    ELSE IF e + d - 1 < -MinExp10 THEN Zero
    ELSE Fin(sg * n, e)

Ranged(sg, s) == RangedAt(sg, s[1], s[2], NumDigits(s[1]))

Stripped(r) == StripZeros(r[1], r[2])

\* The double nearest to m * 10^e.
Norm(m, e) ==
    IF m = 0 THEN Zero ELSE Ranged(Sign(m), Stripped(RoundDigits(Abs(m), e)))

\* IEEE multiplication.
Mul(p, q) ==
    IF IsNaN(p) \/ IsNaN(q) THEN NaN
    ELSE IF p.k = "inf" \/ q.k = "inf"
         THEN IF p.m = 0 \/ q.m = 0 THEN NaN ELSE Inf(Sign(p.m) * Sign(q.m))
    ELSE Norm(p.m * q.m, p.e + q.e)

\* Sum of two finite numbers hi, lo with hi.e - lo.e = d >= 0, on 2*Prec+1
\* working digits: hi is scaled up by 10^up, lo down by the rest.
AddShifted(hi, lo, d, up) ==
    Norm(hi.m * Pow10(up)
           + (IF d - up > 2 * Prec + 1 THEN 0
              ELSE Sign(lo.m) * (Abs(lo.m) \div Pow10(d - up))),
         lo.e + (d - up))

AddAligned(hi, lo) ==
    AddShifted(hi, lo, hi.e - lo.e,
               Min(hi.e - lo.e, (2 * Prec + 1) - NumDigits(Abs(hi.m))))

\* IEEE addition.
Add(p, q) ==
    IF IsNaN(p) \/ IsNaN(q) THEN NaN
    ELSE IF p.k = "inf" /\ q.k = "inf" THEN (IF p.m = q.m THEN p ELSE NaN)
    ELSE IF p.k = "inf" THEN p
    ELSE IF q.k = "inf" THEN q
    ELSE IF p.m = 0 THEN q
    ELSE IF q.m = 0 THEN p
    ELSE IF p.e >= q.e THEN AddAligned(p, q) ELSE AddAligned(q, p)

\* The number with the integer value i (exact, small i).
Num(i) == Norm(i, 0)

\* ---------------------------------------------------------------------------
\* JavaScript strings: sequences of one-character strings.
\* ---------------------------------------------------------------------------

Digits == {"0", "1", "2", "3", "4", "5", "6", "7", "8", "9"}

DigitVal(c) ==
    CASE c = "0" -> 0 [] c = "1" -> 1 [] c = "2" -> 2 [] c = "3" -> 3
      [] c = "4" -> 4 [] c = "5" -> 5 [] c = "6" -> 6 [] c = "7" -> 7
      [] c = "8" -> 8 [] c = "9" -> 9

DigitChar(d) == SubSeq(<<"0", "1", "2", "3", "4", "5", "6", "7", "8", "9">>, d + 1, d + 1)

Drop(s, n) == SubSeq(s, n + 1, Len(s))

StartsWith(s, p) == Len(s) >= Len(p) /\ SubSeq(s, 1, Len(p)) = p

RECURSIVE TrimLeft(_)
TrimLeft(s) == IF s # <<>> /\ Head(s) = " " THEN TrimLeft(Tail(s)) ELSE s

\* Length of the longest prefix of s made of decimal digits.
RECURSIVE DigitPrefixLen(_)
DigitPrefixLen(s) ==
    IF s # <<>> /\ Head(s) \in Digits THEN 1 + DigitPrefixLen(Tail(s)) ELSE 0

\* Value of a sequence of digit characters.
RECURSIVE DigitsValue(_)
DigitsValue(s) ==
    IF s = <<>> THEN 0
    ELSE 10 * DigitsValue(SubSeq(s, 1, Len(s) - 1)) + DigitVal(s[Len(s)])

\* Decimal digits of n >= 0.
RECURSIVE DigitsOf(_)
DigitsOf(n) == IF n < 10 THEN DigitChar(n) ELSE DigitsOf(n \div 10) \o DigitChar(n % 10)

RECURSIVE Zeros(_)
Zeros(n) == IF n <= 0 THEN <<>> ELSE <<"0">> \o Zeros(n - 1)

\* The digits ds of a finite non-zero number with the decimal point after pt digits.
Placed(ds, pt) ==
    IF Len(ds) <= pt /\ pt <= 21 THEN ds \o Zeros(pt - Len(ds))
    ELSE IF 0 < pt /\ pt <= 21 THEN SubSeq(ds, 1, pt) \o <<".">> \o Drop(ds, pt)
    ELSE IF -6 < pt /\ pt <= 0 THEN <<"0", ".">> \o Zeros(-pt) \o ds
    ELSE SubSeq(ds, 1, 1)
         \o (IF Len(ds) > 1 THEN <<".">> \o Drop(ds, 1) ELSE <<>>)
         \o <<"e">> \o (IF pt - 1 < 0 THEN <<"-">> ELSE <<"+">>)
         \o DigitsOf(Abs(pt - 1))

FinToText(n, ds) == (IF n.m < 0 THEN <<"-">> ELSE <<>>) \o Placed(ds, Len(ds) + n.e)

\* Number::toString of ECMAScript (radix 10).
NumToText(n) ==
    IF IsNaN(n) THEN <<"N", "a", "N">>
    ELSE IF n.k = "inf"
         THEN (IF n.m < 0 THEN <<"-">> ELSE <<>>) \o <<"I", "n", "f", "i", "n", "i", "t", "y">>
    ELSE IF n.m = 0 THEN <<"0">>
    ELSE FinToText(n, DigitsOf(Abs(n.m)))

\* Number.prototype.toFixed: the digits of m * 10^(-sh) rounded to an integer
\* (half up), for m >= 0.
FixedDigits(m, sh) ==
    IF sh <= 0 THEN DigitsOf(m) \o Zeros(-sh)
    ELSE IF sh > NumDigits(m) THEN <<"0">>
    ELSE DigitsOf(RoundBy(m, 0, Pow10(sh))[1])

\* The digits ds, padded to f + 1 digits, with the point before the last f.
FixedPlaced(ds, f) ==
    IF Len(ds) <= f THEN <<"0", ".">> \o Zeros(f - Len(ds)) \o ds
    ELSE SubSeq(ds, 1, Len(ds) - f) \o <<".">> \o Drop(ds, Len(ds) - f)

\* toFixed(f) of the number n, for f in 1..100.
toFixed(n, f) ==
    IF ~IsFinite(n) \/ NumDigits(Abs(n.m)) + n.e > 21 THEN NumToText(n)
    ELSE (IF n.m < 0 THEN <<"-">> ELSE <<>>)
         \o FixedPlaced(FixedDigits(Abs(n.m), -(n.e + f)), f)

\* ToString applied to a value that is a string already or a number.
Str(s) == [t |-> "str", s |-> s, n |-> Zero]

NumVal(n) == [t |-> "num", s |-> <<>>, n |-> n]

ToText(v) == IF v.t = "str" THEN v.s ELSE NumToText(v.n)

\* A sign character at the head of t, and t without it.
SignOf(t) == IF t # <<>> /\ Head(t) = "-" THEN -1 ELSE 1

Unsigned(t) == IF t # <<>> /\ Head(t) \in {"-", "+"} THEN Tail(t) ELSE t

\* The value of the exponent part at the head of s: e or E, an optional sign and
\* at least one digit; 0 when s does not start with one.
ExponentDigits(sgn, d) == sgn * DigitsValue(SubSeq(d, 1, DigitPrefixLen(d)))

ExponentPart(s) ==
    IF s = <<>> \/ Head(s) \notin {"e", "E"} THEN 0
    ELSE ExponentDigits(SignOf(Tail(s)), Unsigned(Tail(s)))

\* The digits int before and frac after the decimal point, followed by b.
ParseMantissa(sgn, int, frac, b) ==
    IF int = <<>> /\ frac = <<>> THEN NaN
    ELSE Norm(sgn * DigitsValue(int \o frac), ExponentPart(b) - Len(frac))

ParseFraction(sgn, int, a) ==
    IF a # <<>> /\ Head(a) = "."
    THEN ParseMantissa(sgn, int, SubSeq(Tail(a), 1, DigitPrefixLen(Tail(a))),
                       Drop(Tail(a), DigitPrefixLen(Tail(a))))
    ELSE ParseMantissa(sgn, int, <<>>, a)

ParseDigits(sgn, r, ip) == ParseFraction(sgn, SubSeq(r, 1, ip), Drop(r, ip))

ParseUnsigned(sgn, r) ==
    IF StartsWith(r, <<"I", "n", "f", "i", "n", "i", "t", "y">>) THEN Inf(sgn)
    ELSE ParseDigits(sgn, r, DigitPrefixLen(r))

ParseSigned(t) == ParseUnsigned(SignOf(t), Unsigned(t))

\* parseFloat of ECMAScript: the value of the longest prefix of the trimmed text
\* that is a StrDecimalLiteral, NaN when there is none.
parseFloat(v) == ParseSigned(TrimLeft(ToText(v)))

\* The integer-valued number i, exact.
IntNum(i) == Fin(i, 0)

ParseIntDigits(sgn, r) ==
    IF DigitPrefixLen(r) = 0 THEN NaN
    ELSE IntNum(sgn * DigitsValue(SubSeq(r, 1, DigitPrefixLen(r))))

ParseIntSigned(t) == ParseIntDigits(SignOf(t), Unsigned(t))

\* parseInt of ECMAScript, radix 10: the optional sign and the leading digits of
\* the trimmed text, NaN when there is no digit.
parseInt(s) == ParseIntSigned(TrimLeft(s))

\* ---------------------------------------------------------------------------
\* JavaScript arrays
\* ---------------------------------------------------------------------------

\* The array holding the elements of the tuple s, indexed from 0.
RECURSIVE Arr(_)
Arr(s) ==
    IF s = <<>> THEN <<>>
    ELSE Arr(SubSeq(s, 1, Len(s) - 1)) @@ ((Len(s) - 1) :> s[Len(s)])

Length(a) == Cardinality(DOMAIN a)

\* Array(n).fill(v)
RECURSIVE Filled(_, _)
Filled(n, v) == IF n <= 0 THEN <<>> ELSE Filled(n - 1, v) @@ ((n - 1) :> v)

\* a[i] = v; an index past the end extends the array.
SetAt(a, i, v) == IF i \in DOMAIN a THEN [a EXCEPT ![i] = v] ELSE (i :> v) @@ a

\* Array(steps + 1) throws a RangeError unless steps + 1 is an integer in
\* 0..2^32-1; steps is NaN or an integer returned by parseInt.
ValidArrayLength(steps) == IsFinite(steps) /\ steps.e = 0 /\ steps.m + 1 >= 0

\* ---------------------------------------------------------------------------
\* Coercion of the parameter fields
\* ---------------------------------------------------------------------------

Placeholders == {<<>>, <<"-">>, <<".">>, <<"-", ".">>}

\* value === '' || value === '-' || value === '.' || value === '-.'
IsPlaceholder(v) == v.t = "str" /\ v.s \in Placeholders

\* safeParseFloat without its isNaN test.
UncheckedParseFloat(v) == IF IsPlaceholder(v) THEN Zero ELSE parseFloat(v)

safeParseFloat(v) ==
    IF IsPlaceholder(v) THEN Zero
    ELSE LET parsed == parseFloat(v)
         IN  IF IsNaN(parsed) THEN Zero ELSE parsed

\* The test of handleNumericInput: the text is passed on to the callback.
Accepts(s) == IsPlaceholder(Str(s)) \/ ~IsNaN(parseFloat(Str(s)))

\* row.map(val => safeParseFloat(val)), the first n entries.
RECURSIVE CoerceRow(_, _)
CoerceRow(row, n) ==
    IF n = 0 THEN <<>>
    ELSE CoerceRow(row, n - 1) @@ ((n - 1) :> safeParseFloat(row[n - 1]))

\* M.map(row => row.map(val => safeParseFloat(val))), the first n rows.
RECURSIVE CoerceMatrix(_, _)
CoerceMatrix(M, n) ==
    IF n = 0 THEN <<>>
    ELSE CoerceMatrix(M, n - 1) @@ ((n - 1) :> CoerceRow(M[n - 1], Length(M[n - 1])))

\* ---------------------------------------------------------------------------
\* The recurrence engines
\* ---------------------------------------------------------------------------

\* result[j] += v[i] * M[i][j] for i = 0..n-1, from result[j] = 0.
RECURSIVE DotColumn(_, _, _, _)
DotColumn(v, M, j, n) ==
    IF n = 0 THEN Zero
    ELSE Add(DotColumn(v, M, j, n - 1), Mul(v[n - 1], M[n - 1][j]))

\* The first n entries of the result of vectorMatrixMultiply.
RECURSIVE ResultColumns(_, _, _)
ResultColumns(v, M, n) ==
    IF n = 0 THEN <<>>
    ELSE ResultColumns(v, M, n - 1) @@ ((n - 1) :> DotColumn(v, M, n - 1, Length(v)))

vectorMatrixMultiply(v, M) == ResultColumns(v, M, Length(M[0]))

flattenMatrix(M) == Arr(<<M[0][0], M[0][1], M[1][0], M[1][1]>>)

reshapeToMatrix(v) == Arr(<<Arr(<<v[0], v[1]>>), Arr(<<v[2], v[3]>>)>>)

\* The coefficient vector written one index too low.
FixedWriteABelow(st, i) ==
    [st EXCEPT !.a = SetAt(st.a, i - 1,
        Arr(<<Add(Mul(st.w[0][0], st.a[i - 1][0]), Mul(st.w[0][1], st.a[i - 1][1])),
              Add(Mul(st.w[1][0], st.a[i - 1][0]), Mul(st.w[1][1], st.a[i - 1][1]))>>))]

\* The statements of the loop body of the fixed-W calculateSystem at iteration i.
FixedWriteA(st, i) ==
    [st EXCEPT !.a = SetAt(st.a, i,
        Arr(<<Add(Mul(st.w[0][0], st.a[i - 1][0]), Mul(st.w[0][1], st.a[i - 1][1])),
              Add(Mul(st.w[1][0], st.a[i - 1][0]), Mul(st.w[1][1], st.a[i - 1][1]))>>))]

\* x[i] computed from the current coefficient vector a[i].
FixedWriteXCurrent(st, i) ==
    [st EXCEPT !.x = SetAt(st.x, i, Add(Mul(st.a[i][0], st.x[i - 1]), st.a[i][1]))]

FixedWriteX(st, i) ==
    [st EXCEPT !.x = SetAt(st.x, i, Add(Mul(st.a[i - 1][0], st.x[i - 1]), st.a[i - 1][1]))]

FixedIteration(st, i) == FixedWriteX(FixedWriteA(st, i), i)

\* The statements of the loop body of the evolving-W calculateSystem at iteration i.
\* The evolved matrix also stored over W[i-1], the matrix it was computed from.
EvolvingWriteWInPlace(st, i) ==
    [st EXCEPT !.w = SetAt(SetAt(st.w, i - 1,
        reshapeToMatrix(vectorMatrixMultiply(flattenMatrix(st.w[i - 1]), st.W_evolve))), i,
        reshapeToMatrix(vectorMatrixMultiply(flattenMatrix(st.w[i - 1]), st.W_evolve)))]

EvolvingWriteW(st, i) ==
    [st EXCEPT !.w = SetAt(st.w, i,
        reshapeToMatrix(vectorMatrixMultiply(flattenMatrix(st.w[i - 1]), st.W_evolve)))]

\* a[i] computed from the evolved matrix W[i].
EvolvingWriteAEvolved(st, i) ==
    [st EXCEPT !.a = SetAt(st.a, i, vectorMatrixMultiply(st.a[i - 1], st.w[i]))]

EvolvingWriteA(st, i) ==
    [st EXCEPT !.a = SetAt(st.a, i, vectorMatrixMultiply(st.a[i - 1], st.w[i - 1]))]

EvolvingWriteX(st, i) ==
    [st EXCEPT !.x = SetAt(st.x, i, Add(Mul(st.a[i - 1][0], st.x[i - 1]), st.a[i - 1][1]))]

EvolvingIteration(st, i) == EvolvingWriteX(EvolvingWriteA(EvolvingWriteW(st, i), i), i)

\* The arrays allocated one entry too long.
FixedEntryLonger(p) ==
    [steps |-> p.steps.m,
     w     |-> CoerceMatrix(p.w, Length(p.w)),
     a     |-> SetAt(Filled(p.steps.m + 2, Arr(<<Zero, Zero>>)), 0, CoerceRow(p.a0, Length(p.a0))),
     x     |-> SetAt(Filled(p.steps.m + 2, Zero), 0, safeParseFloat(p.x0))]

\* The locals of the fixed-W calculateSystem when its loop is entered:
\* the coerced parameters, the zero-filled arrays and their initial values.
FixedEntry(p) ==
    LET a0 == CoerceRow(p.a0, Length(p.a0))
        x0 == safeParseFloat(p.x0)
        w  == CoerceMatrix(p.w, Length(p.w))
        n  == p.steps.m + 1
    IN  [steps |-> p.steps.m,
         w     |-> w,
         a     |-> SetAt(Filled(n, Arr(<<Zero, Zero>>)), 0, a0),
         x     |-> SetAt(Filled(n, Zero), 0, x0)]

\* The locals of the evolving-W calculateSystem when its loop is entered.
EvolvingEntry(p) ==
    LET a0 == CoerceRow(p.a0, Length(p.a0))
        x0 == safeParseFloat(p.x0)
        w0 == CoerceMatrix(p.w0, Length(p.w0))
        We == CoerceMatrix(p.W_evolve, Length(p.W_evolve))
        n  == p.steps.m + 1
    IN  [steps    |-> p.steps.m,
         W_evolve |-> We,
         w        |-> SetAt(Filled(n, Arr(<<Arr(<<Zero, Zero>>), Arr(<<Zero, Zero>>)>>)), 0, w0),
         a        |-> SetAt(Filled(n, Arr(<<Zero, Zero>>)), 0, a0),
         x        |-> SetAt(Filled(n, Zero), 0, x0)]

\* for (let i = 1; i <= steps; i++) of the fixed-W variant, from iteration i on.
RECURSIVE FixedLoop(_, _)
FixedLoop(st, i) == IF i <= st.steps THEN FixedLoop(FixedIteration(st, i), i + 1) ELSE st

RECURSIVE EvolvingLoop(_, _)
EvolvingLoop(st, i) ==
    IF i <= st.steps THEN EvolvingLoop(EvolvingIteration(st, i), i + 1) ELSE st

\* The value handed to setResults by the fixed-W variant.
FixedResults(st) ==
    [x |-> [k \in DOMAIN st.x |->
              [step |-> k, x |-> st.x[k], multiplier |-> st.a[k][0], constant |-> st.a[k][1]]],
     a |-> st.a]

\* The chart records with the flattening of W[k] transposed.
EvolvingResultsTransposed(st) ==
    [x |-> [k \in DOMAIN st.x |->
              [step |-> k, x |-> st.x[k], multiplier |-> st.a[k][0], constant |-> st.a[k][1],
               w00 |-> st.w[k][0][0], w01 |-> st.w[k][1][0],
               w10 |-> st.w[k][0][1], w11 |-> st.w[k][1][1]]],
     a |-> st.a,
     w |-> st.w]

\* The value handed to setResults by the evolving-W variant.
EvolvingResults(st) ==
    [x |-> [k \in DOMAIN st.x |->
              [step |-> k, x |-> st.x[k], multiplier |-> st.a[k][0], constant |-> st.a[k][1],
               w00 |-> st.w[k][0][0], w01 |-> st.w[k][0][1],
               w10 |-> st.w[k][1][0], w11 |-> st.w[k][1][1]]],
     a |-> st.a,
     w |-> st.w]

\* Array(steps + 1) of calculateSystem throws.
Throws(p) == ~ValidArrayLength(p.steps)

\* The results calculateSystem computes from the parameter record p.
FixedCalculate(p) == FixedResults(FixedLoop(FixedEntry(p), 1))

EvolvingCalculate(p) == EvolvingResults(EvolvingLoop(EvolvingEntry(p), 1))

\* ---------------------------------------------------------------------------
\* The initial parameters of the components
\* ---------------------------------------------------------------------------

N(m, e) == NumVal(Fin(m, e))

FixedDefaults ==
    [a0    |-> Arr(<<N(5, -1), N(2, 0)>>),
     x0    |-> N(1, 0),
     w     |-> Arr(<<Arr(<<N(95, -2), N(1, -1)>>), Arr(<<N(5, -2), N(9, -1)>>)>>),
     steps |-> IntNum(50)]

EvolvingDefaults ==
    [a0       |-> Arr(<<N(5, -1), N(2, 0)>>),
     x0       |-> N(1, 0),
     w0       |-> Arr(<<Arr(<<N(95, -2), N(1, -1)>>), Arr(<<N(5, -2), N(9, -1)>>)>>),
     W_evolve |-> Arr(<<Arr(<<N(99, -2), N(1, -2), N(0, 0), N(0, 0)>>),
                        Arr(<<N(0, 0), N(99, -2), N(0, 0), N(0, 0)>>),
                        Arr(<<N(0, 0), N(0, 0), N(99, -2), N(1, -2)>>),
                        Arr(<<N(0, 0), N(0, 0), N(0, 0), N(99, -2)>>)>>),
     steps    |-> IntNum(50)]

\* ---------------------------------------------------------------------------
\* State
\* ---------------------------------------------------------------------------

VARIABLES
    variant,               \* which of the two components is mounted
    params,                \* useState: the parameter record
    results,               \* useState: the stored results
    showCoefficients,      \* useState
    showTransitionMatrix,  \* useState (evolving-W component)
    showWEvolutionMatrix,  \* useState (evolving-W component)
    mounted,               \* the effect of the first render has run
    raised,                \* the last call of calculateSystem threw
    last,                  \* the last event handled, with the state it found
    edits,                 \* input edits handled so far
    toggles,               \* display toggles handled so far
    fixedRun,              \* a run of the fixed-W calculateSystem, statement by statement
    evolvingRun,           \* a run of the evolving-W calculateSystem, statement by statement
    input,                 \* a value handed to safeParseFloat
    output                 \* what safeParseFloat returned for it

uiVars == <<variant, params, results, showCoefficients, showTransitionMatrix,
            showWEvolutionMatrix, mounted, raised, last, edits, toggles>>

runVars == <<fixedRun, evolvingRun>>

coerceVars == <<input, output>>

vars == <<uiVars, runVars, coerceVars>>

\* Values of the variables a specification does not use.
NoRun == [pc |-> "idle"]

NoEvent == [op |-> "none"]

NoComponent ==
    /\ variant = "none"
    /\ params = <<>>
    /\ results = <<>>
    /\ showCoefficients = FALSE
    /\ showTransitionMatrix = FALSE
    /\ showWEvolutionMatrix = FALSE
    /\ mounted = FALSE
    /\ raised = FALSE
    /\ last = NoEvent
    /\ edits = 0
    /\ toggles = 0

NoRuns == fixedRun = NoRun /\ evolvingRun = NoRun

NoCoercion == input = <<>> /\ output = <<>>

\* ---------------------------------------------------------------------------
\* The component: edits, toggles, Calculate
\* ---------------------------------------------------------------------------

\* Texts typed into the text inputs.
Texts ==
    { <<>>, <<"-">>, <<".">>, <<"-", ".">>,
      <<"3", ".", "1", "4">>, <<"-", "2">>,
      <<"1", ".", "2", ".", "3">>, <<"a", "b", "c">>, <<"-", "-", "1">>,
      <<"I", "n", "f", "i", "n", "i", "t", "y">> }

\* Values of the number input of the step count: the empty string while the
\* input holds no valid number, a valid floating-point number otherwise.
StepTexts ==
    { <<>>, <<"-", "2">>, <<"-", "1">>, <<"3">>, <<"7">>,
      <<"1", "0", "0">>, <<"1", "0", "1">> }

InitComponent ==
    /\ variant \in {"fixed", "evolving"}
    /\ params = IF variant = "fixed" THEN FixedDefaults ELSE EvolvingDefaults
    /\ results = IF variant = "fixed" THEN [x |-> <<>>, a |-> <<>>]
                 ELSE [x |-> <<>>, a |-> <<>>, w |-> <<>>]
    /\ showCoefficients = FALSE
    /\ showTransitionMatrix = FALSE
    /\ showWEvolutionMatrix = FALSE
    /\ mounted = FALSE
    /\ raised = FALSE
    /\ last = NoEvent
    /\ edits = 0
    /\ toggles = 0

\* The event op, with its arguments, handled in the current state.
Event(op, row, col, text) ==
    [op |-> op, row |-> row, col |-> col, text |-> text,
     params |-> params, results |-> results]

\* calculateSystem: setResults is reached unless Array(steps + 1) throws.
calculateSystem ==
    IF Throws(params)
    THEN raised' = TRUE /\ UNCHANGED results
    ELSE /\ raised' = FALSE
         /\ results' = IF variant = "fixed" THEN FixedCalculate(params)
                       ELSE EvolvingCalculate(params)

\* useEffect(() => { calculateSystem(); }, [])
Mount ==
    /\ variant # "none"
    /\ ~mounted
    /\ mounted' = TRUE
    /\ calculateSystem
    /\ last' = Event("mount", 0, 0, <<>>)
    /\ UNCHANGED <<variant, params, showCoefficients, showTransitionMatrix,
                   showWEvolutionMatrix, edits, toggles, runVars, coerceVars>>

\* onClick={calculateSystem}
Calculate ==
    /\ mounted
    /\ calculateSystem
    /\ last' = Event("calculate", 0, 0, <<>>)
    /\ UNCHANGED <<variant, params, mounted, showCoefficients, showTransitionMatrix,
                   showWEvolutionMatrix, edits, toggles, runVars, coerceVars>>

\* What an edit leaves alone.
EditFrame(op, row, col, text) ==
    /\ mounted
    /\ edits < MaxEdits
    /\ edits' = edits + 1
    /\ last' = Event(op, row, col, text)
    /\ UNCHANGED <<variant, results, mounted, raised, showCoefficients,
                   showTransitionMatrix, showWEvolutionMatrix, toggles, runVars, coerceVars>>

\* handleNumericInput(value, callback) with the callback storing into a field:
\* p is the parameter record the callback hands to setParams.
handleNumericInput(value, p) ==
    IF Accepts(value) THEN params' = p ELSE UNCHANGED params

handleMatrixChange(row, col, value) ==
    /\ variant = "fixed"
    /\ handleNumericInput(value, [params EXCEPT !.w[row][col] = Str(value)])
    /\ EditFrame("w", row, col, value)

handleW0Change(row, col, value) ==
    /\ variant = "evolving"
    /\ handleNumericInput(value, [params EXCEPT !.w0[row][col] = Str(value)])
    /\ EditFrame("w0", row, col, value)

\* The inputs of W_evolve are rendered while showWEvolutionMatrix holds.
handleWEvolveChange(row, col, value) ==
    /\ variant = "evolving"
    /\ showWEvolutionMatrix
    /\ handleNumericInput(value, [params EXCEPT !.W_evolve[row][col] = Str(value)])
    /\ EditFrame("W_evolve", row, col, value)

handleA0Change(index, value) ==
    /\ variant # "none"
    /\ handleNumericInput(value, [params EXCEPT !.a0[index] = Str(value)])
    /\ EditFrame("a0", index, 0, value)

handleX0Change(value) ==
    /\ variant # "none"
    /\ handleNumericInput(value, [params EXCEPT !.x0 = Str(value)])
    /\ EditFrame("x0", 0, 0, value)

\* onChange of the step count: setParams({...params, steps: parseInt(e.target.value)})
handleStepsChange(value) ==
    /\ variant # "none"
    /\ params' = [params EXCEPT !.steps = parseInt(value)]
    /\ EditFrame("steps", 0, 0, value)

\* What a display toggle leaves alone.
ToggleFrame(op) ==
    /\ mounted
    /\ toggles < MaxToggles
    /\ toggles' = toggles + 1
    /\ last' = Event(op, 0, 0, <<>>)
    /\ UNCHANGED <<variant, params, results, mounted, raised, edits, runVars, coerceVars>>

ToggleCoefficients ==
    /\ variant # "none"
    /\ showCoefficients' = ~showCoefficients
    /\ ToggleFrame("showCoefficients")
    /\ UNCHANGED <<showTransitionMatrix, showWEvolutionMatrix>>

ToggleTransitionMatrix ==
    /\ variant = "evolving"
    /\ showTransitionMatrix' = ~showTransitionMatrix
    /\ ToggleFrame("showTransitionMatrix")
    /\ UNCHANGED <<showCoefficients, showWEvolutionMatrix>>

ToggleWEvolutionMatrix ==
    /\ variant = "evolving"
    /\ showWEvolutionMatrix' = ~showWEvolutionMatrix
    /\ ToggleFrame("showWEvolutionMatrix")
    /\ UNCHANGED <<showCoefficients, showTransitionMatrix>>

EditA0 == \E index \in 0..1, value \in Texts : handleA0Change(index, value)

EditX0 == \E value \in Texts : handleX0Change(value)

EditW == \E row \in 0..1, col \in 0..1, value \in Texts : handleMatrixChange(row, col, value)

EditW0 == \E row \in 0..1, col \in 0..1, value \in Texts : handleW0Change(row, col, value)

EditWEvolve ==
    \E row \in 0..3, col \in 0..3, value \in Texts : handleWEvolveChange(row, col, value)

EditSteps == \E value \in StepTexts : handleStepsChange(value)

\* params.steps is an index of results.x.
HasRecord(steps, x) == IsFinite(steps) /\ steps.e = 0 /\ steps.m \in DOMAIN x

\* The 'Final value' line:
\* results.x[params.steps]?.x.toFixed(4) || 'calculating...'
FinalValue ==
    IF HasRecord(params.steps, results.x)
    THEN [number |-> TRUE, text |-> toFixed(results.x[params.steps.m].x, 4)]
    ELSE [number |-> FALSE,
          text |-> <<"c", "a", "l", "c", "u", "l", "a", "t", "i", "n", "g", ".", ".", ".">>]

Init == InitComponent /\ NoRuns /\ NoCoercion

Next ==
    \/ Mount
    \/ Calculate
    \/ EditA0
    \/ EditX0
    \/ EditW
    \/ EditW0
    \/ EditWEvolve
    \/ EditSteps
    \/ ToggleCoefficients
    \/ ToggleTransitionMatrix
    \/ ToggleWEvolutionMatrix

Spec == Init /\ [][Next]_vars

\* ---------------------------------------------------------------------------
\* Runs of the two calculateSystem functions, statement by statement, on the
\* same a0, x0, W and steps
\* ---------------------------------------------------------------------------

Identity4 ==
    Arr(<<Arr(<<N(1, 0), N(0, 0), N(0, 0), N(0, 0)>>),
          Arr(<<N(0, 0), N(1, 0), N(0, 0), N(0, 0)>>),
          Arr(<<N(0, 0), N(0, 0), N(1, 0), N(0, 0)>>),
          Arr(<<N(0, 0), N(0, 0), N(0, 0), N(1, 0)>>)>>)

RunA0 == { Arr(<<Str(<<"2">>), Str(<<"3">>)>>), Arr(<<N(1, 0), Str(<<"-", "0", ".", "5">>)>>) }

RunX0 == { N(0, 0), N(1, 0) }

RunWValues == { N(0, 0), N(1, 0), Str(<<"-", "1">>) }

RunW == { Arr(<<Arr(<<a, b>>), Arr(<<c, d>>)>>) : a, b, c, d \in RunWValues }

RunWEvolve == { Identity4, EvolvingDefaults.W_evolve }

\* The locals of a run that has not entered its loop.
NoLocals == [steps |-> 0]

InitRuns ==
    \E a0 \in RunA0, x0 \in RunX0, w \in RunW, We \in RunWEvolve, steps \in 0..MaxSteps :
        /\ fixedRun = [pc |-> "start", i |-> 0, st |-> NoLocals, results |-> <<>>,
                       p |-> [a0 |-> a0, x0 |-> x0, w |-> w, steps |-> IntNum(steps)]]
        /\ evolvingRun = [pc |-> "start", i |-> 0, st |-> NoLocals, results |-> <<>>,
                          p |-> [a0 |-> a0, x0 |-> x0, w0 |-> w, W_evolve |-> We,
                                 steps |-> IntNum(steps)]]

\* The statements before the loop: coercion, allocation, initial values, i = 1.
FixedBegin ==
    /\ fixedRun.pc = "start"
    /\ ~Throws(fixedRun.p)
    /\ fixedRun' = [fixedRun EXCEPT !.pc = "loop", !.i = 1, !.st = FixedEntry(fixedRun.p)]
    /\ UNCHANGED <<evolvingRun, uiVars, coerceVars>>

\* One iteration of the loop.
FixedStep ==
    /\ fixedRun.pc = "loop"
    /\ fixedRun.i <= fixedRun.st.steps
    /\ fixedRun' = [fixedRun EXCEPT !.i = fixedRun.i + 1,
                                    !.st = FixedIteration(fixedRun.st, fixedRun.i)]
    /\ UNCHANGED <<evolvingRun, uiVars, coerceVars>>

\* The loop is left: chartData is built and handed to setResults.
FixedEnd ==
    /\ fixedRun.pc = "loop"
    /\ fixedRun.i > fixedRun.st.steps
    /\ fixedRun' = [fixedRun EXCEPT !.pc = "done", !.results = FixedResults(fixedRun.st)]
    /\ UNCHANGED <<evolvingRun, uiVars, coerceVars>>

EvolvingBegin ==
    /\ evolvingRun.pc = "start"
    /\ ~Throws(evolvingRun.p)
    /\ evolvingRun' = [evolvingRun EXCEPT !.pc = "loop", !.i = 1,
                                          !.st = EvolvingEntry(evolvingRun.p)]
    /\ UNCHANGED <<fixedRun, uiVars, coerceVars>>

EvolvingStep ==
    /\ evolvingRun.pc = "loop"
    /\ evolvingRun.i <= evolvingRun.st.steps
    /\ evolvingRun' = [evolvingRun EXCEPT !.i = evolvingRun.i + 1,
                                          !.st = EvolvingIteration(evolvingRun.st, evolvingRun.i)]
    /\ UNCHANGED <<fixedRun, uiVars, coerceVars>>

EvolvingEnd ==
    /\ evolvingRun.pc = "loop"
    /\ evolvingRun.i > evolvingRun.st.steps
    /\ evolvingRun' = [evolvingRun EXCEPT !.pc = "done",
                                          !.results = EvolvingResults(evolvingRun.st)]
    /\ UNCHANGED <<fixedRun, uiVars, coerceVars>>

InitEngine == NoComponent /\ InitRuns /\ NoCoercion

NextEngine ==
    \/ FixedBegin
    \/ FixedStep
    \/ FixedEnd
    \/ EvolvingBegin
    \/ EvolvingStep
    \/ EvolvingEnd

SpecEngine == InitEngine /\ [][NextEngine]_vars

\* ---------------------------------------------------------------------------
\* safeParseFloat applied to one value
\* ---------------------------------------------------------------------------

Alphabet == {"-", ".", "1", "5", "a", "e", " "}

\* The texts over Alphabet of length at most n.
RECURSIVE TextsUpTo(_)
TextsUpTo(n) ==
    IF n = 0 THEN {<<>>}
    ELSE TextsUpTo(n - 1) \cup {Append(t, c) : t \in TextsUpTo(n - 1), c \in Alphabet}

CoerceInputs ==
    {Str(t) : t \in TextsUpTo(MaxLen) \cup Texts \cup {<<"-", "0", ".", "5">>}}
        \cup {N(5, -1), N(95, -2), N(-2, 0), NumVal(NaN), NumVal(Inf(1))}

InitCoerce ==
    /\ NoComponent
    /\ NoRuns
    /\ input \in CoerceInputs
    /\ output = <<>>

Coerce ==
    /\ output = <<>>
    /\ input # <<>>
    /\ output' = <<safeParseFloat(input)>>
    /\ UNCHANGED <<input, uiVars, runVars>>

NextCoerce == Coerce

SpecCoerce == InitCoerce /\ [][NextCoerce]_vars

\* ---------------------------------------------------------------------------
\* Properties
\* ---------------------------------------------------------------------------

\* The coerced parameters of the runs.
A0Of(p) == Arr(<<safeParseFloat(p.a0[0]), safeParseFloat(p.a0[1])>>)

Matrix2Of(M) ==
    Arr(<<Arr(<<safeParseFloat(M[0][0]), safeParseFloat(M[0][1])>>),
          Arr(<<safeParseFloat(M[1][0]), safeParseFloat(M[1][1])>>)>>)

\* Indices the loop of a run has completed.
Written(run) == IF run.pc \in {"loop", "done"} THEN 1..(run.i - 1) ELSE {}

\* The example run of the fixed-W engine and one step of its recurrence.
C1_Example ==
    [a0 |-> Arr(<<Str(<<"2">>), Str(<<"3">>)>>), x0 |-> N(0, 0),
     w |-> Arr(<<Arr(<<N(0, 0), N(0, 0)>>), Arr(<<N(0, 0), N(0, 0)>>)>>),
     steps |-> IntNum(2)]

C1_FixedStepAt(a, x, W, i) ==
    /\ a[i][0] = Add(Mul(W[0][0], a[i - 1][0]), Mul(W[0][1], a[i - 1][1]))
    /\ a[i][1] = Add(Mul(W[1][0], a[i - 1][0]), Mul(W[1][1], a[i - 1][1]))
    /\ x[i] = Add(Mul(a[i - 1][0], x[i - 1]), a[i - 1][1])

\* C1: in the fixed-W engine, for every i in 1..steps, a[i] = W * a[i-1] (matrix
\* times column vector) and x[i] = a[i-1][0] * x[i-1] + a[i-1][1], from the
\* previous coefficient vector; a0=[2,3], x0=0, W=0, steps=2 gives x=[0,3,0].
C1_FixedRecurrence ==
    /\ \A i \in Written(fixedRun) :
          C1_FixedStepAt(fixedRun.st.a, fixedRun.st.x, Matrix2Of(fixedRun.p.w), i)
    /\ (fixedRun.pc = "done" /\ fixedRun.p = C1_Example)
          => /\ fixedRun.st.x = Arr(<<Num(0), Num(3), Num(0)>>)
             /\ fixedRun.st.a[1] = Arr(<<Num(0), Num(0)>>)
             /\ fixedRun.st.a[2] = Arr(<<Num(0), Num(0)>>)

C1_Witness ==
    /\ fixedRun.pc = "done"
    /\ fixedRun.p = C1_Example
    /\ fixedRun.st.x[1] = Num(3)
    /\ fixedRun.st.a[0] = Arr(<<Num(2), Num(3)>>)

\* One step of the evolving-W recurrence, the sums in the order of the loops.
C2_Sum4(f, We, j) ==
    Add(Add(Add(Add(Zero, Mul(f[0], We[0][j])), Mul(f[1], We[1][j])),
            Mul(f[2], We[2][j])), Mul(f[3], We[3][j]))

C2_Sum2(v, M, j) == Add(Add(Zero, Mul(v[0], M[0][j])), Mul(v[1], M[1][j]))

C2_EvolvingStepAt(a, x, w, We, i) ==
    /\ w[i][0][0] = C2_Sum4(flattenMatrix(w[i - 1]), We, 0)
    /\ w[i][0][1] = C2_Sum4(flattenMatrix(w[i - 1]), We, 1)
    /\ w[i][1][0] = C2_Sum4(flattenMatrix(w[i - 1]), We, 2)
    /\ w[i][1][1] = C2_Sum4(flattenMatrix(w[i - 1]), We, 3)
    /\ a[i][0] = C2_Sum2(a[i - 1], w[i - 1], 0)
    /\ a[i][1] = C2_Sum2(a[i - 1], w[i - 1], 1)
    /\ x[i] = Add(Mul(a[i - 1][0], x[i - 1]), a[i - 1][1])

C3_IdentityReducesToFixed ==
    (/\ fixedRun.pc = "done"
     /\ evolvingRun.pc = "done"
     /\ evolvingRun.p.W_evolve = Identity4)
        => /\ \A i \in DOMAIN evolvingRun.st.w :
                 evolvingRun.st.w[i] = Matrix2Of(evolvingRun.p.w0)
           /\ evolvingRun.st.a = fixedRun.st.a
           /\ evolvingRun.st.x = fixedRun.st.x

\* A decimal literal, without its sign.
IsLiteralBody(u) ==
    \/ u = <<"I", "n", "f", "i", "n", "i", "t", "y">>
    \/ /\ \A k \in 1..Len(u) : u[k] \in Digits \cup {"."}
       /\ Cardinality({k \in 1..Len(u) : u[k] = "."}) <= 1
       /\ \E k \in 1..Len(u) : u[k] \in Digits

\* Some prefix of the trimmed text is a decimal literal.
HasNumericPrefix(t) == \E n \in 1..Len(t) : IsLiteralBody(Unsigned(SubSeq(t, 1, n)))

ParsesAsNumber(v) == HasNumericPrefix(TrimLeft(ToText(v)))

\* C7: safeParseFloat maps the four placeholders to 0, any text that does not
\* parse as a number to 0, and any other text to its parsed value.
C7_Coercion ==
    output # <<>> =>
        /\ IsPlaceholder(input) => output[1] = Zero
        /\ ~ParsesAsNumber(input) => output[1] = Zero
        /\ (ParsesAsNumber(input) /\ ~IsPlaceholder(input))
              => output[1] = parseFloat(input) /\ ~IsNaN(output[1])
        /\ input = Str(<<"-", "0", ".", "5">>) => output[1] = Fin(-5, -1)
        /\ input = Str(<<"3", ".", "1", "4">>) => output[1] = Fin(314, -2)
        /\ input = Str(<<"a", "b", "c">>) => output[1] = Zero
        /\ input = N(95, -2) => output[1] = Fin(95, -2)

C7_Witness ==
    /\ input = Str(<<"-", "0", ".", "5">>)
    /\ output = <<Fin(-5, -1)>>

\* C8: for steps >= 0 the sequences a and x (and w in the evolving variant) have
\* exactly steps+1 entries, indexed 0..steps, and so has the chart-record
\* sequence built from them.
C8_Lengths ==
    /\ fixedRun.pc \in {"loop", "done"}
          => /\ DOMAIN fixedRun.st.a = 0..fixedRun.p.steps.m
             /\ DOMAIN fixedRun.st.x = 0..fixedRun.p.steps.m
    /\ fixedRun.pc = "done"
          => /\ DOMAIN fixedRun.results.x = 0..fixedRun.p.steps.m
             /\ Length(fixedRun.results.a) = fixedRun.p.steps.m + 1
    /\ evolvingRun.pc \in {"loop", "done"}
          => /\ DOMAIN evolvingRun.st.a = 0..evolvingRun.p.steps.m
             /\ DOMAIN evolvingRun.st.x = 0..evolvingRun.p.steps.m
             /\ DOMAIN evolvingRun.st.w = 0..evolvingRun.p.steps.m
    /\ evolvingRun.pc = "done"
          => /\ DOMAIN evolvingRun.results.x = 0..evolvingRun.p.steps.m
             /\ Length(evolvingRun.results.a) = evolvingRun.p.steps.m + 1
             /\ Length(evolvingRun.results.w) = evolvingRun.p.steps.m + 1

C8_Witness ==
    /\ fixedRun.pc = "done"
    /\ evolvingRun.pc = "done"
    /\ fixedRun.p.steps = IntNum(2)
    /\ Length(fixedRun.results.x) = 3
    /\ Length(evolvingRun.results.x) = 3

\* C9: a[0] is the coerced a0, x[0] the coerced x0 and (evolving variant) W[0] the
\* coerced W0, for all inputs and steps >= 0; no iteration overwrites index 0.
C9_InitialValuesKept ==
    /\ fixedRun.pc \in {"loop", "done"}
          => /\ fixedRun.st.a[0] = A0Of(fixedRun.p)
             /\ fixedRun.st.x[0] = safeParseFloat(fixedRun.p.x0)
    /\ fixedRun.pc = "done"
          => /\ fixedRun.results.a[0] = A0Of(fixedRun.p)
             /\ fixedRun.results.x[0].x = safeParseFloat(fixedRun.p.x0)
    /\ evolvingRun.pc \in {"loop", "done"}
          => /\ evolvingRun.st.a[0] = A0Of(evolvingRun.p)
             /\ evolvingRun.st.x[0] = safeParseFloat(evolvingRun.p.x0)
             /\ evolvingRun.st.w[0] = Matrix2Of(evolvingRun.p.w0)
    /\ evolvingRun.pc = "done"
          => /\ evolvingRun.results.a[0] = A0Of(evolvingRun.p)
             /\ evolvingRun.results.x[0].x = safeParseFloat(evolvingRun.p.x0)
             /\ evolvingRun.results.w[0] = Matrix2Of(evolvingRun.p.w0)

C9_Witness ==
    /\ fixedRun.pc = "done"
    /\ evolvingRun.pc = "done"
    /\ fixedRun.i >= 3
    /\ fixedRun.p.a0[1] = Str(<<"-", "0", ".", "5">>)
    /\ fixedRun.st.a[0] = Arr(<<Num(1), Fin(-5, -1)>>)
    /\ fixedRun.st.a[1] # fixedRun.st.a[0]
    /\ evolvingRun.st.w[1] # evolvingRun.st.w[0]

\* The events of the component.
TextOps == {"a0", "x0", "w", "w0", "W_evolve"}

ToggleOps == {"showCoefficients", "showTransitionMatrix", "showWEvolutionMatrix"}

RunOps == {"mount", "calculate"}

\* The parameters before the event ev with its text stored in its field.
Stored(ev) ==
    CASE ev.op = "a0" -> [ev.params EXCEPT !.a0[ev.row] = Str(ev.text)]
      [] ev.op = "x0" -> [ev.params EXCEPT !.x0 = Str(ev.text)]
      [] ev.op = "w" -> [ev.params EXCEPT !.w[ev.row][ev.col] = Str(ev.text)]
      [] ev.op = "w0" -> [ev.params EXCEPT !.w0[ev.row][ev.col] = Str(ev.text)]
      [] ev.op = "W_evolve" -> [ev.params EXCEPT !.W_evolve[ev.row][ev.col] = Str(ev.text)]

\* The texts of the acceptance examples.
C4_AcceptedTexts ==
    { <<>>, <<"-">>, <<".">>, <<"-", ".">>, <<"3", ".", "1", "4">>, <<"-", "2">> }

C4_RejectedTexts ==
    { <<"1", ".", "2", ".", "3">>, <<"a", "b", "c">>, <<"-", "-", "1">> }

\* C4: a text input stores the typed text when it is "", "-", ".", "-." or a
\* number such as "3.14" or "-2", and leaves params unchanged when the text is
\* rejected, as "1.2.3", "abc" and "--1" are.
C4_TextAcceptance ==
    last.op \in TextOps =>
        /\ last.text \in C4_AcceptedTexts => params = Stored(last)
        /\ last.text \in C4_RejectedTexts => params = last.params

\* C5: whenever calculateSystem reads it, steps is an integer in [5, 100].
C5_StepsInRange ==
    last.op \in RunOps =>
        /\ IsFinite(params.steps)
        /\ params.steps.e = 0
        /\ params.steps.m >= 5
        /\ params.steps.m <= 100

\* The values of step i of the results r are finite.
C6_FiniteAt(r, i) ==
    /\ IsFinite(r.x[i].x)
    /\ IsFinite(r.a[i][0])
    /\ IsFinite(r.a[i][1])

\* C6: no input makes a computation fail: calculateSystem raises nothing, and the
\* coerced initial values and every value computed from them are finite numbers.
C6_NoFailure ==
    last.op \in RunOps =>
        /\ ~raised
        /\ \A i \in DOMAIN results.x : C6_FiniteAt(results, i)

\* C10: an edit of a parameter or a display toggle leaves results unchanged;
\* mount and the Calculate button each replace results with the complete
\* sequence computed from the params current at that moment.
C10_ResultsOnlyOnCalculate ==
    /\ last.op \in TextOps \cup ToggleOps \cup {"steps"} => results = last.results
    /\ last.op \in RunOps =>
          /\ ~Throws(params)
          /\ results = IF variant = "fixed" THEN FixedCalculate(params)
                       ELSE EvolvingCalculate(params)

\* The record rec carries index k of the sequences x and a.
C11_RecordAt(rec, k, x, a) ==
    /\ rec.step = k
    /\ rec.x = x[k]
    /\ rec.multiplier = a[k][0]
    /\ rec.constant = a[k][1]

\* C11: for every k in 0..steps the chart record at position k has step = k,
\* x = x[k], multiplier = a[k][0], constant = a[k][1] and, in the evolving
\* variant, (w00, w01, w10, w11) equal to the row-major flattening of W[k].
C11_RecordsAligned ==
    /\ fixedRun.pc = "done" =>
          \A k \in 0..fixedRun.p.steps.m :
              /\ C11_RecordAt(fixedRun.results.x[k], k, fixedRun.st.x, fixedRun.st.a)
              /\ C11_RecordAt(fixedRun.results.x[k], k, fixedRun.st.x, fixedRun.results.a)
    /\ evolvingRun.pc = "done" =>
          \A k \in 0..evolvingRun.p.steps.m :
              /\ C11_RecordAt(evolvingRun.results.x[k], k, evolvingRun.st.x, evolvingRun.st.a)
              /\ C11_RecordAt(evolvingRun.results.x[k], k, evolvingRun.st.x,
                              evolvingRun.results.a)
              /\ Arr(<<evolvingRun.results.x[k].w00, evolvingRun.results.x[k].w01,
                       evolvingRun.results.x[k].w10, evolvingRun.results.x[k].w11>>)
                    = flattenMatrix(evolvingRun.st.w[k])
              /\ evolvingRun.results.w[k] = evolvingRun.st.w[k]

C11_Witness ==
    /\ fixedRun.pc = "done"
    /\ evolvingRun.pc = "done"
    /\ evolvingRun.p.steps = IntNum(2)
    /\ evolvingRun.results.x[2].step = 2
    /\ evolvingRun.results.x[2].w01 # evolvingRun.results.x[2].w10
    /\ evolvingRun.results.x[1].multiplier # evolvingRun.results.x[1].constant
    /\ fixedRun.results.x[2].x # fixedRun.results.x[1].x

\* The step from run to next is inside the loop of one computation.
C12_InLoop(run, next) == run.pc = "loop" /\ next.pc \in {"loop", "done"}

\* The step from run to next is iteration run.i of the loop.
C12_Iterates(run, next) == run.pc = "loop" /\ next.pc = "loop" /\ next.i = run.i + 1

\* The entries of the sequence below index i are the same in old and new.
C12_KeptBelow(old, new, i) == \A k \in 0..(i - 1) : new[k] = old[k]

\* The entry written by iteration i of the fixed-W loop, from index i-1 of the
\* state before it.
C12_FixedFrom(st, new, i) ==
    /\ new.a[i] = Arr(<<Add(Mul(st.w[0][0], st.a[i - 1][0]), Mul(st.w[0][1], st.a[i - 1][1])),
                        Add(Mul(st.w[1][0], st.a[i - 1][0]), Mul(st.w[1][1], st.a[i - 1][1]))>>)
    /\ new.x[i] = Add(Mul(st.a[i - 1][0], st.x[i - 1]), st.a[i - 1][1])

C12_EvolvingFrom(st, new, i) ==
    /\ new.w[i] = reshapeToMatrix(Arr(<<C2_Sum4(flattenMatrix(st.w[i - 1]), st.W_evolve, 0),
                                        C2_Sum4(flattenMatrix(st.w[i - 1]), st.W_evolve, 1),
                                        C2_Sum4(flattenMatrix(st.w[i - 1]), st.W_evolve, 2),
                                        C2_Sum4(flattenMatrix(st.w[i - 1]), st.W_evolve, 3)>>))
    /\ new.a[i] = Arr(<<C2_Sum2(st.a[i - 1], st.w[i - 1], 0),
                        C2_Sum2(st.a[i - 1], st.w[i - 1], 1)>>)
    /\ new.x[i] = Add(Mul(st.a[i - 1][0], st.x[i - 1]), st.a[i - 1][1])

C12_FixedStepOnce ==
    /\ C12_InLoop(fixedRun, fixedRun') =>
          /\ C12_KeptBelow(fixedRun.st.a, fixedRun'.st.a, fixedRun.i)
          /\ C12_KeptBelow(fixedRun.st.x, fixedRun'.st.x, fixedRun.i)
          /\ fixedRun'.st.w = fixedRun.st.w
    /\ C12_Iterates(fixedRun, fixedRun') =>
          C12_FixedFrom(fixedRun.st, fixedRun'.st, fixedRun.i)

C12_EvolvingStepOnce ==
    /\ C12_InLoop(evolvingRun, evolvingRun') =>
          /\ C12_KeptBelow(evolvingRun.st.a, evolvingRun'.st.a, evolvingRun.i)
          /\ C12_KeptBelow(evolvingRun.st.x, evolvingRun'.st.x, evolvingRun.i)
          /\ C12_KeptBelow(evolvingRun.st.w, evolvingRun'.st.w, evolvingRun.i)
          /\ evolvingRun'.st.W_evolve = evolvingRun.st.W_evolve
    /\ C12_Iterates(evolvingRun, evolvingRun') =>
          C12_EvolvingFrom(evolvingRun.st, evolvingRun'.st, evolvingRun.i)

\* C12: within one computation, once iteration i has written a[i], x[i] (and
\* W[i]), no later iteration changes them, and each entry written at i is
\* computed from the values at index i-1 and the fixed matrices only.
C12_SingleAssignment == [][C12_FixedStepOnce /\ C12_EvolvingStepOnce]_vars

C12_Witness ==
    /\ fixedRun.pc = "done"
    /\ evolvingRun.pc = "done"
    /\ fixedRun.i >= 4
    /\ evolvingRun.i >= 4
    /\ fixedRun.st.a[2] # fixedRun.st.a[1]
    /\ fixedRun.st.x[3] # fixedRun.st.x[2]
    /\ evolvingRun.st.w[2] # evolvingRun.st.w[1]
    /\ evolvingRun.st.a[3] # evolvingRun.st.a[2]

\* The last record of the chart records x.
C13_LastRecord(x) == x[Length(x) - 1]

\* C13: whenever the 'Final value' line shows a number, that number is the last
\* entry x[steps] of the most recently computed x sequence, steps being the step
\* count that computation used.
C13_FinalValueIsLast ==
    (mounted /\ FinalValue.number) =>
        /\ params.steps.m = Length(results.x) - 1
        /\ FinalValue.text = toFixed(C13_LastRecord(results.x).x, 4)

====
